---- MODULE Spec2Model ----
(***************************************************************************)
(* A model of the XRT session cache: XrtSessionCache (the pool),           *)
(* XrtSessionCache::XrtSessionRef (the scoped handle) and XrtSession (the  *)
(* pooled object with its node cache).                                     *)
(*                                                                         *)
(* Threads call GetSession, move and destroy the handles they own, and use *)
(* the session behind a handle.  A step of the model is one stretch of     *)
(* code between two points where another thread can observe or change the  *)
(* pool: taking lock_, releasing it, and the creation of a session.        *)
(***************************************************************************)
EXTENDS Integers, Sequences, FiniteSets, TLC

\* ------------------------------------------------------------- bounds
MaxSessions == 2            \* sessions CreateSession may construct in a run
MaxNodes == 1               \* nodes the borrowers add to node caches in a run
MaxResetNodes == 3          \* SpecReset: nodes of one named cache Reset is applied to

Threads == {"t1", "t2"}     \* calling threads
\* The handle variables each thread has in scope: t1 has two, so that it can
\* move one into the other, t2 has one.
SlotsOf(t) == IF t = "t1" THEN {1, 2} ELSE {1}
Targets == {"A", "B"}       \* target strings the callers pass
Names == {"n1"}             \* keys of XrtSession::node_cache_
ResetNames == {"n1", "n2"}  \* SpecReset: keys of the node caches Reset is applied to

SessionIds == 1..MaxSessions
NullSession == 0            \* an empty std::shared_ptr<XrtSession>
NoThread == "none"          \* lock_ is free
NoTarget == "none"

VARIABLES
  lock_,         \* XrtSessionCache::lock_: the thread holding it, or NoThread
  session_map_,  \* XrtSessionCache::session_map_: target -> deque of sessions
  created,       \* number of XrtSession objects constructed so far
  target_,       \* XrtSession::target_ of every constructed session
  node_cache_,   \* XrtSession::node_cache_ of every constructed session
  handle,        \* the XrtSessionRef objects: handle[t][k]
  op,            \* what each thread is executing and its locals
  checkins,      \* history: AddSession calls per session since it was last handed out
  unreset,       \* history: hand-outs of each session minus the Reset calls on it
  order,         \* history: <<x, y>>: x and y idle for one target, x checked in first
  conc           \* history (SpecObserved): pairs of sessions created by overlapping GetSession calls

vars == <<lock_, session_map_, created, target_, node_cache_, handle, op,
          checkins, unreset, order, conc>>

\* ------------------------------------------------- XrtSession, node cache

\* XrtSession::NodeCache::Rewind: the read position goes back to the start,
\* the nodes stay.
Rewind(c) == [c EXCEPT !.position = 0]

\* Mutant of Reset: every named cache is moved one node back.
ResetOneBack(nc) ==
  [n \in DOMAIN nc |-> [nc[n] EXCEPT !.position = IF @ > 0 THEN @ - 1 ELSE 0]]

\* Mutant of Reset: nothing is rewound.
ResetNothing(nc) == nc

\* XrtSession::Reset: every named cache is rewound.
Reset(nc) == [n \in DOMAIN nc |-> Rewind(nc[n])]

\* The node cache of a session the constructor has just built: no entry.
EmptyNodeCache == [n \in {} |-> [nodes |-> 0, position |-> 0]]

\* Mutant of NewSessionTarget: the target of the session options is left unset.
NewSessionTargetUnset(target) == ""

\* XrtSession::XrtSession: target_ is the target of the session options.
NewSessionTarget(target) == target

\* A borrower's use of one named cache: std::map::operator[] makes the entry,
\* an exhausted cache gets a node added, otherwise the next node is read.
UseCache(nc, n) ==
  LET c == IF n \in DOMAIN nc THEN nc[n] ELSE [nodes |-> 0, position |-> 0]
      d == IF c.position >= c.nodes
             THEN [nodes |-> c.nodes + 1, position |-> c.position + 1]
             ELSE [c EXCEPT !.position = c.position + 1]
  IN  (n :> d) @@ nc

\* ------------------------------------------------------- the deque, the map

\* session_map_[target]: std::map::operator[] yields an empty deque for a new key.
QueueOf(map, target) == IF target \in DOMAIN map THEN map[target] ELSE <<>>

\* Mutant of Back: the front of the deque is taken.
BackIsFront(q) == q[1]

\* Mutant of HasIdle: the test is never true, a session is always created.
HasIdleNever(q) == FALSE

\* GetSession's test: !session_queue.empty().
HasIdle(q) == q # <<>>

\* session_queue.back()
Back(q) == q[Len(q)]

\* Mutant of PopBack: the pop_back is forgotten.
PopBackForgotten(q) == q

\* session_queue.pop_back()
PopBack(q) == SubSeq(q, 1, Len(q) - 1)

\* Mutant of PushBack: the session is dropped instead of stored.
PushBackDropped(q, s) == q

\* Mutant of PushBack: the deque is overwritten with the one session.
PushBackReplaces(q, s) == <<s>>

\* Mutant of PushBack: the session is put at the front of the deque.
PushBackAtFront(q, s) == <<s>> \o q

\* session_map_[...].push_back(session)
PushBack(q, s) == Append(q, s)

\* session_map_ with the deque of `target` set to q (the entry is made if new).
WithQueue(map, target, q) == (target :> q) @@ map

Range(q) == {q[i] : i \in 1..Len(q)}

\* Mutant of EntryOnMiss: a place is reserved in the deque before the session
\* is created.
EntryOnMissReserved(map, target) == (target :> <<NullSession>>) @@ map

\* session_map_ after GetSession looked up a target with no idle session:
\* operator[] has made the entry if it was new, and the deque is empty.
EntryOnMiss(map, target) == WithQueue(map, target, <<>>)

\* Mutant of CallsReset: GetSession resets the session on neither path.
CallsResetNever(path) == FALSE

\* Mutant of CallsReset: GetSession resets the session on both paths.
CallsResetAlways(path) == TRUE

\* Whether GetSession calls session->Reset() on a path: the call stands in the
\* branch that took a session off the deque, the other branch returns the
\* result of CreateSession as it is.
CallsReset(path) == path = "reuse"

\* The node caches and the count of hand-outs not matched by a Reset call,
\* after GetSession has got session s on a path.
AfterPath(path, s, nc, u) ==
  IF CallsReset(path)
    THEN [caches |-> [nc EXCEPT ![s] = Reset(@)], unreset |-> [u EXCEPT ![s] = @ - 1]]
    ELSE [caches |-> nc, unreset |-> u]

\* ------------------------------------------------------------- handles

\* A handle variable that is not in scope.
Dead == [alive |-> FALSE, cache_ |-> FALSE, session_ |-> NullSession]

\* Mutant of NewRef: the constructor leaves cache_ at its default, nullptr.
NewRefUnbound(s) == [alive |-> TRUE, cache_ |-> FALSE, session_ |-> s]

\* XrtSessionRef(cache, session)
NewRef(s) == [alive |-> TRUE, cache_ |-> TRUE, session_ |-> s]

\* A default-initialised XrtSessionRef, as the move constructor starts from:
\* cache_ = nullptr, session_ empty.
EmptyRef == [alive |-> TRUE, cache_ |-> FALSE, session_ |-> NullSession]

\* XrtSessionRef::get()
Get(h) == h.session_

\* Mutant of NeedsDetach: the handle never checks its session in.
NeedsDetachNever(h) == FALSE

\* Mutant of NeedsDetach: Detach checks its session in without the test.
NeedsDetachAlways(h) == TRUE

\* Detach's test: cache_ != nullptr.
NeedsDetach(h) == h.cache_

\* Mutant of AfterMoveOut: the session is passed by copy, AddSession(session_).
AfterMoveOutCopied(h) == h

\* The handle after std::move(session_) has initialised AddSession's
\* parameter: session_ is left empty.
AfterMoveOut(h) == [h EXCEPT !.session_ = NullSession]

\* Mutant of CreateLockHolder: lock_ is released before CreateSession.
CreateLockHolderNone(t) == NoThread

\* The holder of lock_ while GetSession runs CreateSession: the lock_guard
\* taken at the top of GetSession is still in scope.
CreateLockHolder(t) == t

\* Mutant of IsSelf: operator= goes on to MoveFrom without the test.
IsSelfNever(d, s) == FALSE

\* operator='s test, negated: &rhs == this.  d and s are handles of one thread.
IsSelf(d, s) == d = s

\* Mutant of LockAtExit: GetSession leaves without releasing lock_.
LockAtExitKept(t) == t

\* The holder of lock_ when thread t has left GetSession, by return or by a
\* failure of CreateSession: the lock_guard has gone out of scope.
LockAtExit(t) == NoThread

\* Mutant of MoveFromTransfer: rhs.cache_ is not cleared.
MoveFromTransferKeepsSource(hs, d, s) ==
  [hs EXCEPT ![d] = [@ EXCEPT !.cache_ = hs[s].cache_, !.session_ = hs[s].session_],
             ![s] = [@ EXCEPT !.session_ = NullSession]]

\* The end of MoveFrom, after Detach: cache_ = rhs.cache_; rhs.cache_ = nullptr;
\* session_ = std::move(rhs.session_).  hs are the handles of one thread.
MoveFromTransfer(hs, d, s) ==
  [hs EXCEPT ![d] = [@ EXCEPT !.cache_ = hs[s].cache_, !.session_ = hs[s].session_],
             ![s] = [@ EXCEPT !.cache_ = FALSE, !.session_ = NullSession]]

\* ------------------------------------------------------------- threads

\* A thread outside every call.  Of a thread inside a call: pc is its place,
\* target, dst and src the arguments, sess the session in a local or in
\* AddSession's parameter, kind the caller of Detach, seen (SpecObserved) the
\* sessions other threads created for the same target during this call.
Idle == [pc |-> "idle", target |-> NoTarget, dst |-> 0, src |-> 0,
         sess |-> NullSession, kind |-> "none", seen |-> {}]

Init ==
  /\ lock_ = NoThread
  /\ session_map_ = [t \in {} |-> <<>>]
  /\ created = 0
  /\ target_ = [s \in SessionIds |-> NoTarget]
  /\ node_cache_ = [s \in SessionIds |-> EmptyNodeCache]
  /\ handle = [t \in Threads |-> [k \in SlotsOf(t) |-> Dead]]
  /\ op = [t \in Threads |-> Idle]
  /\ checkins = [s \in SessionIds |-> 0]
  /\ unreset = [s \in SessionIds |-> 0]
  /\ order = {}
  /\ conc = {}

\* A thread calls GetSession(target); the result will initialise its handle k.
GetSessionCall(t, target, k) ==
  /\ op[t].pc = "idle"
  /\ ~handle[t][k].alive
  /\ op' = [op EXCEPT ![t] = [Idle EXCEPT !.pc = "get_lock", !.target = target, !.dst = k]]
  /\ UNCHANGED <<lock_, session_map_, created, target_, node_cache_, handle,
                 checkins, unreset, order, conc>>

\* GetSession takes lock_ and finds an idle session: it takes the one at the
\* back and resets it.
GetSessionReuse(t) ==
  /\ op[t].pc = "get_lock"
  /\ lock_ = NoThread
  /\ LET q == QueueOf(session_map_, op[t].target) IN
     /\ HasIdle(q)
     /\ LET s == Back(q) IN
        /\ session_map_' = WithQueue(session_map_, op[t].target, PopBack(q))
        /\ node_cache_' = AfterPath("reuse", s, node_cache_, unreset).caches
        /\ unreset' = AfterPath("reuse", s, node_cache_, unreset).unreset
        /\ op' = [op EXCEPT ![t].pc = "get_ret", ![t].sess = s]
        /\ checkins' = [checkins EXCEPT ![s] = 0]
        /\ order' = {p \in order : p[1] # s /\ p[2] # s}
  /\ lock_' = t
  /\ UNCHANGED <<created, target_, handle, conc>>

\* GetSession takes lock_ and finds no idle session: it goes on to create one,
\* still inside the scope of the lock_guard.
GetSessionMiss(t) ==
  /\ op[t].pc = "get_lock"
  /\ lock_ = NoThread
  /\ ~HasIdle(QueueOf(session_map_, op[t].target))
  /\ session_map_' = EntryOnMiss(session_map_, op[t].target)
  /\ lock_' = CreateLockHolder(t)
  /\ op' = [op EXCEPT ![t].pc = "get_create"]
  /\ UNCHANGED <<created, target_, node_cache_, handle, checkins, unreset, order, conc>>

\* CreateSession returns a new session: std::make_shared<XrtSession> of the
\* session options built from the target.
CreateSessionBuild(t, s) ==
  /\ op[t].pc = "get_create"
  /\ created < MaxSessions
  /\ s = created + 1
  /\ created' = s
  /\ target_' = [target_ EXCEPT ![s] = NewSessionTarget(op[t].target)]
  /\ LET made == [node_cache_ EXCEPT ![s] = EmptyNodeCache] IN
     /\ node_cache_' = AfterPath("create", s, made, unreset).caches
     /\ unreset' = AfterPath("create", s, made, unreset).unreset
  /\ UNCHANGED <<lock_, session_map_, handle, checkins, order>>

CreateSessionOk(t) ==
  /\ CreateSessionBuild(t, created + 1)
  /\ op' = [op EXCEPT ![t].pc = "get_ret", ![t].sess = created + 1]
  /\ UNCHANGED conc

\* The same step with the history of overlapping calls kept: every other
\* thread waiting in GetSession for the same target has seen this creation,
\* and the new session is paired with the creations this call has seen.
CreateSessionOkObserved(t) ==
  /\ CreateSessionBuild(t, created + 1)
  /\ conc' = conc \cup {{x, created + 1} : x \in op[t].seen}
  /\ op' = [u \in Threads |->
              IF u = t THEN [op[t] EXCEPT !.pc = "get_ret", !.sess = created + 1]
              ELSE IF op[u].pc = "get_lock" /\ op[u].target = op[t].target
                     THEN [op[u] EXCEPT !.seen = @ \cup {created + 1}]
                     ELSE op[u]]

\* CreateSession fails: the failure leaves GetSession, which releases lock_.
CreateSessionFail(t) ==
  /\ op[t].pc = "get_create"
  /\ lock_' = LockAtExit(t)
  /\ op' = [op EXCEPT ![t] = Idle]
  /\ UNCHANGED <<session_map_, created, target_, node_cache_, handle,
                 checkins, unreset, order, conc>>

\* GetSession returns XrtSessionRef(this, session) and releases lock_.
GetSessionReturn(t) ==
  /\ op[t].pc = "get_ret"
  /\ handle' = [handle EXCEPT ![t][op[t].dst] = NewRef(op[t].sess)]
  /\ lock_' = LockAtExit(t)
  /\ unreset' = [unreset EXCEPT ![op[t].sess] = @ + 1]
  /\ op' = [op EXCEPT ![t] = Idle]
  /\ UNCHANGED <<session_map_, created, target_, node_cache_, checkins, order, conc>>

\* ~XrtSessionRef of a handle that owes nothing: Detach does nothing.
DestroyDetached(t, k) ==
  /\ op[t].pc = "idle"
  /\ handle[t][k].alive
  /\ ~NeedsDetach(handle[t][k])
  /\ handle' = [handle EXCEPT ![t][k] = Dead]
  /\ UNCHANGED <<lock_, session_map_, created, target_, node_cache_, op,
                 checkins, unreset, order, conc>>

\* ~XrtSessionRef of a handle bound to the cache: Detach calls
\* AddSession(std::move(session_)), which waits for lock_.
Destroy(t, k) ==
  /\ op[t].pc = "idle"
  /\ handle[t][k].alive
  /\ NeedsDetach(handle[t][k])
  /\ handle' = [handle EXCEPT ![t][k] = AfterMoveOut(@)]
  /\ op' = [op EXCEPT ![t] = [Idle EXCEPT !.pc = "add_lock", !.dst = k,
                                          !.sess = handle[t][k].session_,
                                          !.kind = "dtor"]]
  /\ UNCHANGED <<lock_, session_map_, created, target_, node_cache_,
                 checkins, unreset, order, conc>>

\* XrtSessionRef d(std::move(s)): d starts detached, MoveFrom's Detach does
\* nothing and the transfer follows.
MoveConstruct(t, d, s) ==
  /\ op[t].pc = "idle"
  /\ ~handle[t][d].alive
  /\ handle[t][s].alive
  /\ handle' = [handle EXCEPT ![t] = MoveFromTransfer([@ EXCEPT ![d] = EmptyRef], d, s)]
  /\ UNCHANGED <<lock_, session_map_, created, target_, node_cache_, op,
                 checkins, unreset, order, conc>>

\* k = std::move(k): &rhs == this, nothing happens.
MoveAssignSelf(t, k) ==
  /\ op[t].pc = "idle"
  /\ handle[t][k].alive
  /\ IsSelf(k, k)
  /\ UNCHANGED vars

\* d = std::move(s) where d owes nothing: the transfer at once.
MoveAssignDetached(t, d, s) ==
  /\ op[t].pc = "idle"
  /\ ~IsSelf(d, s)
  /\ handle[t][d].alive
  /\ handle[t][s].alive
  /\ ~NeedsDetach(handle[t][d])
  /\ handle' = [handle EXCEPT ![t] = MoveFromTransfer(@, d, s)]
  /\ UNCHANGED <<lock_, session_map_, created, target_, node_cache_, op,
                 checkins, unreset, order, conc>>

\* d = std::move(s) where d is bound to the cache: MoveFrom's Detach first
\* calls AddSession(std::move(session_)).
MoveAssign(t, d, s) ==
  /\ op[t].pc = "idle"
  /\ ~IsSelf(d, s)
  /\ handle[t][d].alive
  /\ handle[t][s].alive
  /\ NeedsDetach(handle[t][d])
  /\ handle' = [handle EXCEPT ![t][d] = AfterMoveOut(@)]
  /\ op' = [op EXCEPT ![t] = [Idle EXCEPT !.pc = "add_lock", !.dst = d, !.src = s,
                                          !.sess = handle[t][d].session_,
                                          !.kind = "assign"]]
  /\ UNCHANGED <<lock_, session_map_, created, target_, node_cache_,
                 checkins, unreset, order, conc>>

\* AddSession: under lock_, the session goes to the back of the deque of its target.
AddSession(t) ==
  /\ op[t].pc = "add_lock"
  /\ lock_ = NoThread
  /\ op[t].sess # NullSession   \* session->target() of an empty pointer has no defined step
  /\ LET s == op[t].sess
         q == QueueOf(session_map_, target_[s])
     IN /\ session_map_' = WithQueue(session_map_, target_[s], PushBack(q, s))
        /\ checkins' = [checkins EXCEPT ![s] = @ + 1]
        /\ order' = order \cup {<<x, s>> : x \in Range(q)}
  /\ op' = [op EXCEPT ![t].pc = "detach_clear"]
  /\ UNCHANGED <<lock_, created, target_, node_cache_, handle, unreset, conc>>

\* The rest of Detach, cache_ = nullptr, and what follows it: the end of the
\* destructor, or the transfer of MoveFrom.
DetachClear(t) ==
  /\ op[t].pc = "detach_clear"
  /\ LET d == op[t].dst
         cleared == [handle[t] EXCEPT ![d].cache_ = FALSE]
     IN handle' = [handle EXCEPT ![t] =
                     IF op[t].kind = "dtor"
                       THEN [cleared EXCEPT ![d] = Dead]
                       ELSE MoveFromTransfer(cleared, d, op[t].src)]
  /\ op' = [op EXCEPT ![t] = Idle]
  /\ UNCHANGED <<lock_, session_map_, created, target_, node_cache_,
                 checkins, unreset, order, conc>>

\* The nodes held by all node caches.
NodesAdded ==
  Cardinality(UNION {UNION {{<<s, n, i>> : i \in 1..node_cache_[s][n].nodes} :
                            n \in DOMAIN node_cache_[s]} : s \in SessionIds})

\* The holder of a handle uses the session behind it.
UseNode(t, k, n) ==
  /\ op[t].pc = "idle"
  /\ handle[t][k].alive
  /\ Get(handle[t][k]) # NullSession
  /\ LET s == Get(handle[t][k])
         c == IF n \in DOMAIN node_cache_[s] THEN node_cache_[s][n]
              ELSE [nodes |-> 0, position |-> 0]
     IN /\ c.position >= c.nodes => NodesAdded < MaxNodes
        /\ node_cache_' = [node_cache_ EXCEPT ![s] = UseCache(@, n)]
  /\ UNCHANGED <<lock_, session_map_, created, target_, handle, op,
                 checkins, unreset, order, conc>>

Other ==
  \/ \E t \in Threads, target \in Targets : \E k \in SlotsOf(t) : GetSessionCall(t, target, k)
  \/ \E t \in Threads : GetSessionReuse(t)
  \/ \E t \in Threads : GetSessionMiss(t)
  \/ \E t \in Threads : CreateSessionFail(t)
  \/ \E t \in Threads : GetSessionReturn(t)
  \/ \E t \in Threads : \E k \in SlotsOf(t) : DestroyDetached(t, k)
  \/ \E t \in Threads : \E k \in SlotsOf(t) : Destroy(t, k)
  \/ \E t \in Threads : \E d \in SlotsOf(t), s \in SlotsOf(t) : MoveConstruct(t, d, s)
  \/ \E t \in Threads : \E k \in SlotsOf(t) : MoveAssignSelf(t, k)
  \/ \E t \in Threads : \E d \in SlotsOf(t), s \in SlotsOf(t) : MoveAssignDetached(t, d, s)
  \/ \E t \in Threads : \E d \in SlotsOf(t), s \in SlotsOf(t) : MoveAssign(t, d, s)
  \/ \E t \in Threads : AddSession(t)
  \/ \E t \in Threads : DetachClear(t)
  \/ \E t \in Threads, n \in Names : \E k \in SlotsOf(t) : UseNode(t, k, n)

Next == Other \/ \E t \in Threads : CreateSessionOk(t)

Spec == Init /\ [][Next]_vars

\* The same program with the history of overlapping GetSession calls kept.
NextObserved == Other \/ \E t \in Threads : CreateSessionOkObserved(t)

SpecObserved == Init /\ [][NextObserved]_vars

\* The steps of a call in progress of thread t.
Progress(t) ==
  \/ GetSessionReuse(t)
  \/ GetSessionMiss(t)
  \/ CreateSessionOk(t)
  \/ CreateSessionFail(t)
  \/ GetSessionReturn(t)
  \/ AddSession(t)
  \/ DetachClear(t)

\* Fair scheduling: a thread inside a call keeps running, and a thread waiting
\* for lock_ gets it when it is free again and again.
FairSpec == Init /\ [][Next]_vars /\ \A t \in Threads : SF_vars(Progress(t))

\* ------------------------------------------------------ derived notions

HandleIds == UNION {{<<t, k>> : k \in SlotsOf(t)} : t \in Threads}

Ref(x) == handle[x[1]][x[2]]

Created == 1..created

\* The sessions in some idle collection.
IdleSessions == UNION {Range(session_map_[tg]) : tg \in DOMAIN session_map_}

\* The handles in scope that hold session s.
Owners(s) == {x \in HandleIds : Ref(x).alive /\ Ref(x).session_ = s}

\* The places of s in the idle collections.
IdlePlaces(s) ==
  UNION {{<<tg, i>> : i \in {j \in 1..Len(session_map_[tg]) : session_map_[tg][j] = s}} :
         tg \in DOMAIN session_map_}

\* The threads holding s in a local of GetSession or in AddSession's parameter.
InFlight(s) == {t \in Threads : op[t].pc \in {"get_ret", "add_lock"} /\ op[t].sess = s}

Quiescent == \A t \in Threads : op[t].pc = "idle"

\* ---------------------------------------------------------------- claims

\* C1. Uniqueness: in every reachable state no two handles in scope whose
\* pool back-reference is non-null hold the same session.
C1_Uniqueness ==
  \A x \in HandleIds, y \in HandleIds :
    (/\ x # y
     /\ Ref(x).alive /\ Ref(x).cache_
     /\ Ref(y).alive /\ Ref(y).cache_
     /\ Ref(x).session_ # NullSession)
    => Ref(x).session_ # Ref(y).session_

\* Two threads hold attached handles on sessions of one target at once.
C1_Witness ==
  /\ Ref(<<"t1", 1>>).alive /\ Ref(<<"t1", 1>>).cache_
  /\ Ref(<<"t2", 1>>).alive /\ Ref(<<"t2", 1>>).cache_
  /\ Ref(<<"t1", 1>>).session_ # NullSession
  /\ Ref(<<"t2", 1>>).session_ # NullSession
  /\ target_[Ref(<<"t1", 1>>).session_] = target_[Ref(<<"t2", 1>>).session_]

\* C2. A session in an idle collection is held by no handle in scope.
C2_IdleNotOwned ==
  \A s \in IdleSessions : Owners(s) = {}

\* A handle has just checked its session in (Detach is between AddSession and
\* cache_ = nullptr) while another handle still holds a session.
C2_Witness ==
  \E t \in Threads :
    /\ op[t].pc = "detach_clear"
    /\ op[t].sess \in IdleSessions
    /\ \E x \in HandleIds : Ref(x).alive /\ Ref(x).session_ # NullSession

\* The step that ends a move of handle s into handle d of thread t.
MoveDone(t, d, s) ==
  \/ MoveConstruct(t, d, s)
  \/ MoveAssignDetached(t, d, s)
  \/ DetachClear(t) /\ op[t].kind = "assign" /\ op[t].dst = d /\ op[t].src = s

\* C3. No double return: a session that no handle holds and no call has in
\* hand has been checked in exactly once since it was last handed out, and
\* one that is held not at all; a move leaves the source with a null
\* back-reference and no session, the destination with what the source had;
\* destroying a handle whose back-reference is null leaves the pool alone.
C3_NoDoubleReturn ==
  /\ [](\A s \in Created :
          checkins[s] = IF Owners(s) # {} \/ InFlight(s) # {} THEN 0 ELSE 1)
  /\ [][\A t \in Threads : \A d \in SlotsOf(t), s \in SlotsOf(t) :
          MoveDone(t, d, s) =>
            /\ ~handle'[t][s].cache_
            /\ handle'[t][s].session_ = NullSession
            /\ handle'[t][d].cache_ = handle[t][s].cache_
            /\ handle'[t][d].session_ = handle[t][s].session_]_vars
  /\ [][\A t \in Threads : \A k \in SlotsOf(t) :
          DestroyDetached(t, k) => UNCHANGED <<session_map_, checkins>>]_vars

\* t1 moved its handle 1 into handle 2 and destroyed handle 2: the one session
\* is idle, checked in once, and the moved-from handle 1 is still in scope.
C3_Witness ==
  /\ Quiescent
  /\ created = 1
  /\ handle["t1"][1].alive /\ ~handle["t1"][1].cache_
  /\ ~handle["t1"][2].alive
  /\ ~handle["t2"][1].alive
  /\ checkins[1] = 1
  /\ IdlePlaces(1) # {}

\* C4. No leak, no duplicate: every session ever created is in exactly one
\* place (a handle in scope, a place of an idle collection, or the local of a
\* call in progress), and when no call is in progress it is held by a handle
\* or idle.
C4_NoLeakNoDuplicate ==
  \A s \in Created :
    /\ Cardinality(Owners(s)) + Cardinality(IdlePlaces(s)) + Cardinality(InFlight(s)) = 1
    /\ Quiescent => Cardinality(Owners(s)) + Cardinality(IdlePlaces(s)) = 1

\* After checkouts, a move and a release: one session idle, the other held by
\* the destination of a move whose source is still in scope.
C4_Witness ==
  /\ Quiescent
  /\ created = 2
  /\ IdleSessions # {}
  /\ handle["t1"][1].alive /\ ~handle["t1"][1].cache_
  /\ handle["t1"][2].alive /\ handle["t1"][2].session_ # NullSession

\* C5. Return guarantee: once the destructor of a handle bound to the cache has
\* started to check its session in, the session is eventually in the idle
\* collection of its target.
C5_ReturnGuarantee ==
  \A t \in Threads : \A s \in SessionIds :
    (op[t].pc = "add_lock" /\ op[t].kind = "dtor" /\ op[t].sess = s)
      ~> (s \in Range(QueueOf(session_map_, target_[s])))

\* A destructor has checked its session in, and another thread's GetSession
\* for the same target is waiting for lock_: it will receive that session.
C5_Witness ==
  \E t \in Threads, u \in Threads :
    /\ op[t].pc = "detach_clear" /\ op[t].kind = "dtor"
    /\ op[t].sess \in Range(QueueOf(session_map_, target_[op[t].sess]))
    /\ op[u].pc = "get_lock" /\ op[u].target = target_[op[t].sess]

\* Every named cache of nc is at its start.
Rewound(nc) == \A n \in DOMAIN nc : nc[n].position = 0

\* C6. Reset-before-reuse: the session GetSession is about to return, created
\* or reused, has every named node cache rewound.
C6_ResetBeforeReuse ==
  \A t \in Threads :
    op[t].pc = "get_ret" => Rewound(node_cache_[op[t].sess])

\* GetSession is about to return a session whose node cache a previous
\* borrower filled.
C6_Witness ==
  \E t \in Threads :
    /\ op[t].pc = "get_ret"
    /\ \E n \in DOMAIN node_cache_[op[t].sess] : node_cache_[op[t].sess][n].nodes > 0

C8_LIFO ==
  [][\A t \in Threads :
       (op[t].pc = "get_lock" /\ op'[t].pc = "get_ret") =>
         LET q == QueueOf(session_map_, op[t].target)
             s == op'[t].sess
         IN /\ s \in Range(q)
            /\ \A x \in Range(q) \ {s} :
                 /\ <<x, s>> \in order
                 /\ x \in Range(QueueOf(session_map_', op[t].target))]_vars

\* Session 2 was checked in first and session 1 second: the checkout took
\* session 1 and left session 2 idle.
C8_Witness ==
  \E t \in Threads :
    /\ op[t].pc = "get_ret"
    /\ op[t].sess = 1
    /\ QueueOf(session_map_, op[t].target) = <<2>>

\* C9. Partition isolation: the session GetSession(t) is about to return has
\* target t, and every session idle under key t has target t.
C9_PartitionIsolation ==
  /\ \A t \in Threads :
       op[t].pc = "get_ret" => target_[op[t].sess] = op[t].target
  /\ \A tg \in DOMAIN session_map_ :
       \A s \in Range(session_map_[tg]) : target_[s] = tg

\* A reused session of target B is about to be returned while a session of
\* target A is idle.
C9_Witness ==
  \E t \in Threads :
    /\ op[t].pc = "get_ret"
    /\ op[t].target = "B"
    /\ checkins[op[t].sess] = 0
    /\ node_cache_[op[t].sess] # EmptyNodeCache
    /\ QueueOf(session_map_, "A") # <<>>

\* The sessions created for target tg.
SessionsOf(tg) == {s \in Created : target_[s] = tg}

\* C10. Two GetSession calls for one target that overlap and both find the
\* idle collection empty create two distinct sessions; once neither is held,
\* both are idle for that target, and they are all of its idle collection
\* when no other session of the target exists.
C10_ConcurrentCreate ==
  \A p \in conc :
    LET tg == target_[CHOOSE s \in p : TRUE]
        q == QueueOf(session_map_, tg)
    IN /\ Cardinality(p) = 2
       /\ p \subseteq SessionsOf(tg)
       /\ (\A s \in p : Owners(s) = {} /\ InFlight(s) = {}) =>
            /\ p \subseteq Range(q)
            /\ SessionsOf(tg) = p => (Range(q) = p /\ Len(q) = 2)

\* Both sessions of two overlapping creations have been released: no handle
\* is in scope and the idle collection of the target holds the two.
C10_Witness ==
  /\ conc # {}
  /\ Quiescent
  /\ \A x \in HandleIds : ~Ref(x).alive
  /\ Len(QueueOf(session_map_, target_[1])) = 2

\* Every target has the same idle sessions in the same order after the step,
\* a missing entry counting as an empty one.
SameIdle == \A tg \in Targets : QueueOf(session_map_', tg) = QueueOf(session_map_, tg)

\* C11. Failed creation leaves the pool intact: from the step in which
\* GetSession finds no idle session to the step in which CreateSession fails,
\* the idle collections of all targets keep their sessions and their order;
\* the failure produces no handle and no session, releases lock_, and leaves
\* a state in which idle sessions are held by no handle and every session is
\* in exactly one place.
C11_FailedCreation ==
  /\ [][\A t \in Threads :
          (op[t].pc = "get_lock" /\ op'[t].pc = "get_create") =>
            SameIdle /\ handle' = handle]_vars
  /\ [][(\E t \in Threads : op[t].pc = "get_create") => SameIdle]_vars
  /\ [][\A t \in Threads :
          (op[t].pc = "get_create" /\ op'[t].pc = "idle") =>
            /\ SameIdle
            /\ handle' = handle
            /\ created' = created
            /\ lock_' = NoThread
            /\ C2_IdleNotOwned'
            /\ C4_NoLeakNoDuplicate']_vars

\* No session of target B was ever created, yet B has an entry: a creation
\* for B failed.  Target A has an idle session and no call is in progress.
C11_Witness ==
  /\ Quiescent
  /\ SessionsOf("B") = {}
  /\ "B" \in DOMAIN session_map_
  /\ QueueOf(session_map_, "A") # <<>>

\* C12. Reuse over creation: GetSession goes on to create a session only when
\* the idle collection of its target is empty, and a session is created only
\* by a call whose target has no idle session; when the collection is not
\* empty the call creates nothing and takes one of its sessions (the same one
\* again when it is the only one).
C12_ReuseOverCreation ==
  /\ [][\A t \in Threads :
          (op[t].pc = "get_lock" /\ op'[t].pc = "get_create") =>
            QueueOf(session_map_, op[t].target) = <<>>]_vars
  /\ [][created' # created =>
          \E t \in Threads :
            /\ op[t].pc = "get_create"
            /\ op'[t].pc = "get_ret"
            /\ QueueOf(session_map_, op[t].target) = <<>>]_vars
  /\ [][\A t \in Threads :
          (/\ op[t].pc = "get_lock"
           /\ op'[t].pc # "get_lock"
           /\ QueueOf(session_map_, op[t].target) # <<>>) =>
            /\ created' = created
            /\ op'[t].pc = "get_ret"
            /\ op'[t].sess \in Range(QueueOf(session_map_, op[t].target))]_vars

\* The only session ever created is handed out again: its node cache shows an
\* earlier borrower.
C12_Witness ==
  \E t \in Threads :
    /\ op[t].pc = "get_ret"
    /\ created = 1
    /\ op[t].sess = 1
    /\ node_cache_[1] # EmptyNodeCache

\* A session GetSession has in hand and has not yet returned.
BeingHandedOut(s) == \E t \in Threads : op[t].pc = "get_ret" /\ op[t].sess = s

\* C13 as stated: GetSession invokes Reset() on every session it hands out,
\* on the creation path as on the reuse path, so that a session out of the
\* hands of GetSession has had as many Reset calls as hand-outs (two after a
\* checkout on an empty pool, a release and a second checkout).
C13_ResetEveryCheckout ==
  \A s \in Created : ~BeingHandedOut(s) => unreset[s] = 0

\* C13 amended: GetSession invokes Reset() on the reuse path only.  The first
\* hand-out of a session, the one that created it, comes with no Reset call
\* and every later one with exactly one: a session out of the hands of
\* GetSession has had one Reset call less than hand-outs (one after a
\* checkout on an empty pool, a release and a second checkout), and a session
\* GetSession is about to return has had as many as its hand-outs so far.
C13_ResetOnReuseOnly ==
  \A s \in SessionIds :
    unreset[s] = IF s \in Created /\ ~BeingHandedOut(s) THEN 1 ELSE 0

\* A session checked out a second time: it is behind a handle, its node cache
\* holds a node of its first borrower rewound by the second checkout, and it
\* has had one Reset call for its two hand-outs.
C13_Witness ==
  \E t \in Threads : \E k \in SlotsOf(t) :
    LET s == Get(handle[t][k]) IN
      /\ handle[t][k].alive
      /\ s # NullSession
      /\ unreset[s] = 1
      /\ \E n \in DOMAIN node_cache_[s] :
            node_cache_[s][n].nodes > 0 /\ node_cache_[s][n].position = 0

\* C14. Double check-in and use-after-release are unreachable.  A handle
\* whose back-reference is null yields no session through get(); a session
\* that a handle yields is in no idle collection and is yielded by no other
\* handle; a check-in starts only from a handle whose back-reference is
\* non-null and which holds a session, and from then on that handle yields
\* none; and the session AddSession receives has not been checked in since
\* its last hand-out, is not idle and is held by no handle.
C14_NoUseAfterRelease ==
  /\ [](\A x \in HandleIds : ~Ref(x).cache_ => Get(Ref(x)) = NullSession)
  /\ [](\A x \in HandleIds :
          Get(Ref(x)) # NullSession =>
            /\ Get(Ref(x)) \notin IdleSessions
            /\ \A y \in HandleIds \ {x} : Get(Ref(y)) # Get(Ref(x)))
  /\ [][\A t \in Threads :
          (op[t].pc = "idle" /\ op'[t].pc = "add_lock") =>
            LET d == op'[t].dst IN
              /\ handle[t][d].cache_
              /\ Get(handle[t][d]) # NullSession
              /\ op'[t].sess = Get(handle[t][d])
              /\ Get(handle'[t][d]) = NullSession]_vars
  /\ [][\A t \in Threads :
          AddSession(t) =>
            /\ checkins[op[t].sess] = 0
            /\ op[t].sess \notin IdleSessions
            /\ Owners(op[t].sess) = {}]_vars

\* t1's handle 1 has been moved from and is still in scope, neutralised,
\* while its former session is held by handle 2 of the same thread.
C14_Witness ==
  /\ handle["t1"][1].alive /\ ~handle["t1"][1].cache_
  /\ Get(handle["t1"][1]) = NullSession
  /\ handle["t1"][2].alive /\ handle["t1"][2].cache_
  /\ Get(handle["t1"][2]) # NullSession
  /\ created = 1

\* C15. Check-in frame: a step of AddSession with session s puts s at the
\* back of the idle collection of s's target, after the sessions already
\* there in their order, and leaves alone the idle collections of the other
\* targets, every handle, the sessions, their targets and their node caches.
C15_CheckinFrame ==
  [][\A t \in Threads :
       AddSession(t) =>
         LET s == op[t].sess
             q == QueueOf(session_map_, target_[s])
         IN /\ QueueOf(session_map_', target_[s]) = Append(q, s)
            /\ DOMAIN session_map_' = DOMAIN session_map_ \cup {target_[s]}
            /\ \A tg \in DOMAIN session_map_' \ {target_[s]} :
                  session_map_'[tg] = session_map_[tg]
            /\ UNCHANGED <<handle, created, target_, node_cache_>>]_vars

\* AddSession has just put a session behind one that was already idle.
C15_Witness ==
  \E t \in Threads :
    /\ op[t].pc = "detach_clear"
    /\ Len(QueueOf(session_map_, target_[op[t].sess])) = 2
    /\ Back(QueueOf(session_map_, target_[op[t].sess])) = op[t].sess

\* C16. Reset is deferred to checkout.  No step of a handle's release (the
\* start of Detach, AddSession, the end of Detach) changes a node cache; the
\* node cache of an idle session changes only in the step of GetSession that
\* takes that session off its idle collection; and that step leaves every
\* named cache of the session rewound.
C16_ResetDeferred ==
  /\ [][\A t \in Threads :
          (\/ op[t].pc = "idle" /\ op'[t].pc = "add_lock"
           \/ AddSession(t)
           \/ DetachClear(t)) => node_cache_' = node_cache_]_vars
  /\ [][\A s \in IdleSessions :
          node_cache_'[s] # node_cache_[s] =>
            \E t \in Threads :
              op[t].pc = "get_lock" /\ op'[t].pc = "get_ret" /\ op'[t].sess = s]_vars
  /\ [][\A t \in Threads :
          (op[t].pc = "get_lock" /\ op'[t].pc = "get_ret") =>
            /\ op'[t].sess \in IdleSessions
            /\ Rewound(node_cache_'[op'[t].sess])]_vars

\* A session lies idle with a named cache its last borrower left past the
\* start, and no call is in progress.
C16_Witness ==
  /\ Quiescent
  /\ \E s \in IdleSessions : ~Rewound(node_cache_[s])

\* ------------------------------------------- XrtSession::Reset on its own

\* The states of one named cache: some nodes, read up to some position.
CacheStates ==
  {c \in [nodes : 0..MaxResetNodes, position : 0..MaxResetNodes] : c.position <= c.nodes}

\* The states of XrtSession::node_cache_: a map from some names to cache states.
NodeCacheStates == UNION {[D -> CacheStates] : D \in SUBSET ResetNames}

\* Session 1 exists, with any target and any node cache, behind t1's handle 1.
InitReset ==
  /\ lock_ = NoThread
  /\ session_map_ = [t \in {} |-> <<>>]
  /\ created = 1
  /\ \E tg \in Targets : target_ = [s \in SessionIds |-> IF s = 1 THEN tg ELSE NoTarget]
  /\ \E nc \in NodeCacheStates :
        node_cache_ = [s \in SessionIds |-> IF s = 1 THEN nc ELSE EmptyNodeCache]
  /\ handle = [t \in Threads |-> [k \in SlotsOf(t) |->
                 IF t = "t1" /\ k = 1 THEN NewRef(1) ELSE Dead]]
  /\ op = [t \in Threads |-> Idle]
  /\ checkins = [s \in SessionIds |-> 0]
  /\ unreset = [s \in SessionIds |-> IF s = 1 THEN 1 ELSE 0]
  /\ order = {}
  /\ conc = {}

\* The holder of a handle calls Reset() on the session behind it, and then
\* once more.
ResetCall(t, k) ==
  /\ op[t].pc \in {"idle", "reset_once"}
  /\ handle[t][k].alive
  /\ Get(handle[t][k]) # NullSession
  /\ op[t].pc = "reset_once" => op[t].dst = k
  /\ node_cache_' = [node_cache_ EXCEPT ![Get(handle[t][k])] = Reset(@)]
  /\ op' = [op EXCEPT ![t] = [Idle EXCEPT
               !.pc = IF op[t].pc = "idle" THEN "reset_once" ELSE "reset_twice",
               !.dst = k]]
  /\ UNCHANGED <<lock_, session_map_, created, target_, handle,
                 checkins, unreset, order, conc>>

\* The caller goes on after its second Reset().
ResetReturn(t) ==
  /\ op[t].pc = "reset_twice"
  /\ op' = [op EXCEPT ![t] = Idle]
  /\ UNCHANGED <<lock_, session_map_, created, target_, node_cache_, handle,
                 checkins, unreset, order, conc>>

NextReset ==
  \/ \E t \in Threads : \E k \in SlotsOf(t) : ResetCall(t, k)
  \/ \E t \in Threads : ResetReturn(t)

SpecReset == InitReset /\ [][NextReset]_vars

\* C17. Reset() is idempotent and local.  Of every node-cache state the
\* first Reset() leaves every named cache rewound, with its names and nodes
\* as before; the second Reset() changes nothing; and no Reset() changes
\* the session's target, the pool or a handle.
C17_ResetIdempotent ==
  /\ [](\A s \in Created :
          /\ Reset(Reset(node_cache_[s])) = Reset(node_cache_[s])
          /\ Rewound(Reset(node_cache_[s])))
  /\ [][\A t \in Threads : \A k \in SlotsOf(t) :
          ResetCall(t, k) =>
            LET s == Get(handle[t][k]) IN
              /\ Rewound(node_cache_'[s])
              /\ DOMAIN node_cache_'[s] = DOMAIN node_cache_[s]
              /\ \A n \in DOMAIN node_cache_[s] :
                    node_cache_'[s][n].nodes = node_cache_[s][n].nodes
              /\ \A x \in SessionIds \ {s} : node_cache_'[x] = node_cache_[x]
              /\ op[t].pc = "reset_once" => node_cache_' = node_cache_
              /\ UNCHANGED <<target_, created, session_map_, handle, lock_>>]_vars

\* Reset() has been called twice on a session with two named caches that
\* hold nodes.
C17_Witness ==
  /\ op["t1"].pc = "reset_twice"
  /\ DOMAIN node_cache_[1] = ResetNames
  /\ \A n \in ResetNames : node_cache_[1][n].nodes = MaxResetNodes
  /\ Rewound(node_cache_[1])

\* C18. No deadlock on lock_.  lock_ is held only by a thread between the
\* top of GetSession and its exit; a thread that is outside every call, that
\* waits for lock_ in GetSession or in AddSession, or that finishes Detach
\* does not hold it, so no thread waits for a lock it holds itself and no
\* handle is released under the lock; every exit of GetSession, the failure
\* of CreateSession included, leaves lock_ free; and under fair scheduling
\* every call of GetSession and every release of a handle comes to its end.
C18_NoDeadlock ==
  /\ [](lock_ # NoThread => op[lock_].pc \in {"get_create", "get_ret"})
  /\ [](\A t \in Threads :
          op[t].pc \in {"idle", "get_lock", "add_lock", "detach_clear"} => lock_ # t)
  /\ [][\A t \in Threads :
          (op[t].pc \in {"get_create", "get_ret"} /\ op'[t].pc = "idle") =>
            lock_ = t /\ lock_' = NoThread]_vars
  /\ \A t \in Threads : (op[t].pc # "idle") ~> (op[t].pc = "idle")

\* One thread waits for lock_ to check a session in while the other holds it
\* inside CreateSession: the lock is free again only when the creation has
\* ended or failed.
C18_Witness ==
  \E t \in Threads, u \in Threads :
    /\ op[t].pc = "add_lock"
    /\ op[u].pc = "get_create"
    /\ lock_ = u

\* C19. Move-assigning handle s onto a handle d that is bound to the cache:
\* the assignment first hands d's previous session to AddSession, leaving s
\* and the pool as they were; AddSession checks that session in, once (it was
\* not checked in before and is then at one place of the idle collections);
\* the assignment then gives d what s had and leaves s in scope with a null
\* back-reference and no session, while the previous session is idle or has
\* been handed out again.  The assignment of a handle to itself starts no
\* check-in: a check-in of an assignment has a source other than its
\* destination.
C19_MoveAssign ==
  /\ [](\A t \in Threads : op[t].kind = "assign" => op[t].dst # op[t].src)
  /\ [][\A t \in Threads :
          (op[t].pc = "idle" /\ op'[t].pc = "add_lock" /\ op'[t].kind = "assign") =>
            LET d == op'[t].dst
                s == op'[t].src
            IN /\ handle[t][d].cache_
               /\ handle[t][d].session_ # NullSession
               /\ op'[t].sess = handle[t][d].session_
               /\ handle'[t][s] = handle[t][s]
               /\ UNCHANGED <<session_map_, checkins>>]_vars
  /\ [][\A t \in Threads :
          (AddSession(t) /\ op[t].kind = "assign") =>
            /\ checkins[op[t].sess] = 0
            /\ checkins'[op[t].sess] = 1
            /\ IdlePlaces(op[t].sess) = {}
            /\ Cardinality(IdlePlaces(op[t].sess)') = 1
            /\ handle' = handle]_vars
  /\ [][\A t \in Threads :
          (DetachClear(t) /\ op[t].kind = "assign") =>
            LET d == op[t].dst
                s == op[t].src
            IN /\ handle'[t][d] = [alive |-> TRUE, cache_ |-> handle[t][s].cache_,
                                   session_ |-> handle[t][s].session_]
               /\ handle'[t][s] = EmptyRef
               /\ \/ op[t].sess \in IdleSessions
                  \/ Owners(op[t].sess) # {}
                  \/ InFlight(op[t].sess) # {}
               /\ checkins[op[t].sess] <= 1
               /\ UNCHANGED <<session_map_, checkins, created>>]_vars

\* In the middle of d = std::move(s): d's previous session has been checked
\* in and is idle, s still holds the session that d is about to get.
C19_Witness ==
  \E t \in Threads :
    /\ op[t].pc = "detach_clear" /\ op[t].kind = "assign"
    /\ op[t].sess \in IdleSessions
    /\ handle[t][op[t].src].cache_
    /\ handle[t][op[t].src].session_ # NullSession

\* The thread of handle x is inside Detach on x, between the std::move of
\* session_ and cache_ = nullptr.
InDetach(x) == op[x[1]].pc \in {"add_lock", "detach_clear"} /\ op[x[1]].dst = x[2]

\* C20. Every handle that is not inside its own Detach has a non-null
\* back-reference exactly when it holds a session; the session GetSession
\* is about to wrap in a handle and the session passed to AddSession are
\* never null; and no idle collection holds a null entry.
C20_BackRefIffSession ==
  /\ \A x \in HandleIds :
        ~InDetach(x) => (Ref(x).cache_ <=> Ref(x).session_ # NullSession)
  /\ \A t \in Threads :
        op[t].pc \in {"get_ret", "add_lock", "detach_clear"} => op[t].sess # NullSession
  /\ NullSession \notin IdleSessions

\* No call is in progress; t1 holds in handle 2 the session moved out of its
\* handle 1, which is still in scope; that session has been released and
\* handed out again (its node cache holds a node and is rewound); t2 holds
\* the other session.
C20_Witness ==
  /\ Quiescent
  /\ handle["t1"][1].alive /\ ~handle["t1"][1].cache_
  /\ handle["t1"][2].cache_ /\ handle["t1"][2].session_ = 1
  /\ handle["t2"][1].cache_ /\ handle["t2"][1].session_ = 2
  /\ node_cache_[1] # EmptyNodeCache /\ Rewound(node_cache_[1])

====
